---- MODULE Spec2Model ----
(***************************************************************************)
(* The Todo CRUD service: src/src/api/todo.py (the six endpoint handlers   *)
(* and the serializer) over src/src/models/todo.py (the Todo table and the *)
(* TodoCreate request schema).                                             *)
(*                                                                         *)
(* The table is the sequence `rows` in store-native order.  A request body *)
(* is a record over the keys a caller may send; a key that is not sent has *)
(* the value Unset.  Reads of the store (query, refresh) succeed; a commit *)
(* may raise, either because the table's unique constraints reject the     *)
(* flush or because the store fails (`fault`).                             *)
(***************************************************************************)
EXTENDS Integers, Sequences, FiniteSets, TLC

VARIABLES rows,     \* the todo table: a sequence of records, committed state
          now,      \* the last value the wall clock returned
          last,     \* the last request served and its response
          deleted,  \* history: ids deleted successfully and not created since
          sess      \* the sessions of requests served concurrently

vars == <<rows, now, last, deleted, sess>>

\* ---------------------------------------------------------------- bounds

MaxId == 2
MaxTime == 1
MaxPage == 3
MaxLimit == 2

\* le=100 of list_todo's limit parameter
LimitCap == 100

Ids == 1..MaxId

Min(a, b) == IF a < b THEN a ELSE b

\* ---------------------------------------------------------------- values

Unset == "<unset>"
None == "<None>"

\* The columns of the todo table.
Columns == {"id", "username", "email", "full_name", "create_date", "update_date"}

\* The fields of the request schema.
SchemaFields == {"username", "email", "full_name"}

BodyKeys == {"username", "email", "full_name", "task", "due_date"}

Body(u, e, f, t, d) ==
    [username |-> u, email |-> e, full_name |-> f, task |-> t, due_date |-> d]

NoBody == Body(Unset, Unset, Unset, Unset, Unset)

\* The request bodies the clients send.  UserBodies name a username and an
\* email; TaskBodies are the bodies the tests post ({task}, {task, due_date}).
UserBodies == { Body("ann", "a@x", Unset, Unset, Unset),
                Body("bob", "b@x", "Full", Unset, Unset),
                Body("bob", "a@x", Unset, Unset, Unset) }

TaskBodies == { Body(Unset, Unset, Unset, "Task", Unset),
                Body(Unset, Unset, Unset, "Task", "Due") }

Bodies == UserBodies \cup TaskBodies

\* ---------------------------------------------------------------- schema

\* TodoCreate(**payload): username and email are required, full_name is
\* optional, and keys outside the schema are ignored.
Validates(p) == p.username # Unset /\ p.email # Unset

\* todo_data.model_dump(exclude_unset=...): the schema's fields; with
\* exclude_unset a field the caller did not send stays out of the mapping
\* (Unset), without it the field carries its default.
model_dump(p, exclude_unset) ==
    [f \in SchemaFields |->
        IF p[f] = Unset /\ ~exclude_unset THEN None ELSE p[f]]

\* Todo(**data) with the two timestamps the handler assigns; a column no
\* keyword names is NULL.
Todo(id, data, created, updated) ==
    [id |-> id,
     username |-> data.username,
     email |-> data.email,
     full_name |-> IF data.full_name = Unset THEN None ELSE data.full_name,
     create_date |-> created,
     update_date |-> updated]

\* for key, value in data.items(): setattr(record, key, value)
setattrs(record, data) ==
    [c \in Columns |->
        IF c \in SchemaFields /\ data[c] # Unset THEN data[c] ELSE record[c]]

\* serialize_sqlalchemy_obj: every column of the record under its name.
serialize_sqlalchemy_obj(obj) == [c \in Columns |-> obj[c]]

\* ---------------------------------------------------------------- store

LiveIds(t) == { t[k].id : k \in 1..Len(t) }

\* db.query(Todo).filter(Todo.id == id).first(): the position of the row, or 0.
Query(t, id) ==
    IF id \in LiveIds(t) THEN CHOOSE k \in 1..Len(t) : t[k].id = id ELSE 0

\* The primary key and the two unique columns.
Unique(t) ==
    \A j, k \in 1..Len(t) :
        j # k => /\ t[j].id # t[k].id
                 /\ t[j].username # t[k].username
                 /\ t[j].email # t[k].email

\* The ids the store may assign to a new row: above every live id (the next
\* rowid, or the next value of a sequence), within the ids of the model.
FreshIds(t) == { i \in Ids : \A j \in LiveIds(t) : i > j }

\* Remove, deleting nothing.
Remove_keeps(t, k) == t

\* db.delete(record): the table without the row at position k.
Remove(t, k) == SubSeq(t, 1, k - 1) \o SubSeq(t, k + 1, Len(t))

\* db.commit(): the flush succeeds when the store holds and the constraints do.
CommitOk(work, fault) == ~fault /\ Unique(work)

\* Rollback, leaving the work of the request in the table.
Rollback_keeps(committed, work) == work

\* db.rollback(): the work of the request is dropped.
Rollback(committed, work) == committed

\* The table after the handler's write: the work when the commit succeeds, the
\* committed rows after the rollback when it raises.
Written(committed, work, fault) ==
    IF CommitOk(work, fault) THEN work ELSE Rollback(committed, work)

\* db.refresh(record): the row of the id as the table holds it.
Refreshed(t, id) == t[Query(t, id)]

\* datetime.now(UTC): the wall clock, which does not run backwards and may
\* return the value it returned before.
ClockReads == { t \in 0..MaxTime : now <= t /\ t <= now + 1 }

\* Touch, stamping the creation time as well.
Touch_both(record, t) == [record EXCEPT !.create_date = t, !.update_date = t]

\* record.update_date = datetime.now(UTC)
Touch(record, t) == [record EXCEPT !.update_date = t]

\* ---------------------------------------------------------------- replies

NotFound == "HTTPException(404)"
StoreError == "Exception"

\* StatusOf without the clause that raises an HTTPException again.
StatusOf_swallow(raised) == 500

\* The handlers' except clauses: an HTTPException is raised again as it is,
\* any other exception becomes the internal error.
StatusOf(raised) == IF raised = NotFound THEN 404 ELSE 500

Reply(op, id, page, limit, payload, status, fault, body) ==
    [op |-> op, id |-> id, page |-> page, limit |-> limit, payload |-> payload,
     status |-> status, fault |-> fault, body |-> body]

\* A session: the request it serves, the place the handler has reached, the
\* table as it was when the request arrived, the row the query loaded and the
\* handler's copy of it.
Session(pc, op, id, payload, start, loaded, record, fault, status, body) ==
    [pc |-> pc, op |-> op, id |-> id, payload |-> payload, start |-> start,
     loaded |-> loaded, record |-> record, fault |-> fault, status |-> status,
     body |-> body]

Sessions == {1, 2}

NoSess == [s \in Sessions |->
             Session("idle", "none", 0, NoBody, <<>>, <<>>, <<>>, FALSE, 0, <<>>)]

Init ==
    /\ rows = <<>>
    /\ now = 0
    /\ last = Reply("none", 0, 0, 0, NoBody, 0, FALSE, <<>>)
    /\ deleted = {}
    /\ sess = NoSess

\* ---------------------------------------------------------------- handlers

\* Offset, counting pages from 0.
Offset_next(page, limit) == page * limit

\* offset = (page - 1) * limit
Offset(page, limit) == (page - 1) * limit

\* db.query(Todo).offset(offset).limit(limit).all()
Page(t, offset, limit) == SubSeq(t, offset + 1, Min(offset + limit, Len(t)))

SerializeAll(t) == [k \in 1..Len(t) |-> serialize_sqlalchemy_obj(t[k])]

\* GET /api/v1/todo, for a page and a limit the Query(ge=1) and
\* Query(ge=1, le=100) declarations let through to the handler.
list_todo ==
    \E page \in 1..MaxPage, limit \in 1..MaxLimit :
        /\ limit <= LimitCap
        /\ last' = Reply("LIST", 0, page, limit, NoBody, 200, FALSE,
                         SerializeAll(Page(rows, Offset(page, limit), limit)))
        /\ UNCHANGED <<rows, now, deleted, sess>>

\* POST /api/v1/todo
create_record ==
    \E payload \in Bodies :
        IF ~Validates(payload)
        THEN /\ last' = Reply("POST", 0, 0, 0, payload, 422, FALSE, <<>>)
             /\ UNCHANGED <<rows, now, deleted, sess>>
        ELSE \E id \in FreshIds(rows), created \in ClockReads, fault \in BOOLEAN :
             \E updated \in { t \in 0..MaxTime : created <= t /\ t <= created + 1 } :
                LET data == model_dump(payload, TRUE)
                    new_record == Todo(id, data, created, updated)
                    work == Append(rows, new_record)
                    ok == CommitOk(work, fault)
                IN /\ rows' = Written(rows, work, fault)
                   /\ now' = updated
                   /\ deleted' = IF ok THEN deleted \ {id} ELSE deleted
                   /\ last' = IF ok
                              THEN Reply("POST", id, 0, 0, payload, 200, FALSE,
                                         <<serialize_sqlalchemy_obj(Refreshed(work, id))>>)
                              ELSE Reply("POST", 0, 0, 0, payload, StatusOf(StoreError), TRUE, <<>>)
                   /\ UNCHANGED sess

\* GET /api/v1/todo/{id}
get_todo_by_id ==
    \E id \in Ids :
        LET k == Query(rows, id)
        IN /\ last' = IF k = 0
                      THEN Reply("GET", id, 0, 0, NoBody, StatusOf(NotFound), FALSE, <<>>)
                      ELSE Reply("GET", id, 0, 0, NoBody, 200, FALSE,
                                 <<serialize_sqlalchemy_obj(rows[k])>>)
           /\ UNCHANGED <<rows, now, deleted, sess>>

\* The body of update_todo_full and update_todo_partial, which differ in the
\* exclude_unset they dump the payload with.
Update(op, exclude_unset) ==
    \E id \in Ids, payload \in Bodies :
        LET k == Query(rows, id)
        IN IF ~Validates(payload)
           THEN /\ last' = Reply(op, id, 0, 0, payload, 422, FALSE, <<>>)
                /\ UNCHANGED <<rows, now, deleted, sess>>
           ELSE IF k = 0
           THEN /\ last' = Reply(op, id, 0, 0, payload, StatusOf(NotFound), FALSE, <<>>)
                /\ UNCHANGED <<rows, now, deleted, sess>>
           ELSE \E t \in ClockReads, fault \in BOOLEAN :
                LET data == model_dump(payload, exclude_unset)
                    record == Touch(setattrs(rows[k], data), t)
                    work == [rows EXCEPT ![k] = record]
                    ok == CommitOk(work, fault)
                IN /\ rows' = Written(rows, work, fault)
                   /\ now' = t
                   /\ last' = IF ok
                              THEN Reply(op, id, 0, 0, payload, 200, FALSE,
                                         <<serialize_sqlalchemy_obj(Refreshed(work, id))>>)
                              ELSE Reply(op, id, 0, 0, payload, StatusOf(StoreError), TRUE, <<>>)
                   /\ UNCHANGED <<deleted, sess>>

\* PUT /api/v1/todo/{id}
update_todo_full == Update("PUT", FALSE)

\* PATCH /api/v1/todo/{id}
update_todo_partial == Update("PATCH", TRUE)

\* DELETE /api/v1/todo/{id}
delete_todo ==
    \E id \in Ids :
        LET k == Query(rows, id)
        IN IF k = 0
           THEN /\ last' = Reply("DELETE", id, 0, 0, NoBody, StatusOf(NotFound), FALSE, <<>>)
                /\ UNCHANGED <<rows, now, deleted, sess>>
           ELSE \E fault \in BOOLEAN :
                LET work == Remove(rows, k)
                    ok == CommitOk(work, fault)
                IN /\ rows' = Written(rows, work, fault)
                   /\ deleted' = IF ok THEN deleted \cup {id} ELSE deleted
                   /\ last' = IF ok
                              THEN Reply("DELETE", id, 0, 0, NoBody, 200, FALSE, <<>>)
                              ELSE Reply("DELETE", id, 0, 0, NoBody, StatusOf(StoreError), TRUE, <<>>)
                   /\ UNCHANGED <<now, sess>>

Next ==
    \/ list_todo
    \/ create_record
    \/ get_todo_by_id
    \/ update_todo_full
    \/ update_todo_partial
    \/ delete_todo

Spec == Init /\ [][Next]_vars

\* ---------------------------------------------------------------- paging

MaxRows == 4

Names == <<"ann", "bob", "cy", "dee", "eve", "fay", "gus", "hal">>
Mails == <<"a@x", "b@x", "c@x", "d@x", "e@x", "f@x", "g@x", "h@x">>

\* The tables n creations leave, n up to MaxRows: the k-th row carries the id
\* k and the k-th login, with or without a full name.
Tables ==
    UNION { { [k \in 1..n |->
                 Todo(k, [username |-> Names[k], email |-> Mails[k],
                          full_name |-> f[k]], 0, 0)] :
              f \in [1..n -> {Unset, "Full"}] } : n \in 0..MaxRows }

InitList ==
    /\ rows \in Tables
    /\ now = 0
    /\ last = Reply("none", 0, 0, 0, NoBody, 0, FALSE, <<>>)
    /\ deleted = {}
    /\ sess = NoSess

NextList == list_todo

\* The list operation over the tables of up to MaxRows rows.
SpecList == InitList /\ [][NextList]_vars

\* ---------------------------------------------------------------- sessions
\* Two requests served at once, each on its own session: the handler's query,
\* its assignments to the loaded record, its commit and its refresh are steps
\* of their own, and the store serialises the statements.

ConcOps == {"GET", "PUT", "PATCH", "DELETE"}

Arrived(op, id, payload, t) ==
    Session("query", op, id, payload, t, <<>>, <<>>, FALSE, 0, <<>>)

Requests(t) ==
    { Arrived(op, id, payload, t) :
        op \in ConcOps, id \in Ids, payload \in UserBodies \cup {NoBody} }

\* The tables the requests arrive at.
ConcTables ==
    { << Todo(1, model_dump(Body("ann", "a@x", Unset, Unset, Unset), TRUE), 0, 0),
         Todo(2, model_dump(Body("bob", "b@x", "Full", Unset, Unset), TRUE), 0, 0) >>,
      << Todo(1, model_dump(Body("ann", "a@x", "Full", Unset, Unset), TRUE), 0, 0) >> }

\* Two requests on different ids have arrived; a PUT or PATCH carries a body,
\* a GET or DELETE carries none.
InitConc ==
    /\ rows \in ConcTables
    /\ now = 0
    /\ last = Reply("none", 0, 0, 0, NoBody, 0, FALSE, <<>>)
    /\ deleted = {}
    /\ sess \in { f \in [Sessions -> Requests(rows)] :
                     /\ f[1].id # f[2].id
                     /\ \A s \in Sessions :
                           (f[s].op \in {"PUT", "PATCH"}) <=> (f[s].payload # NoBody) }

Finish(s, status, fault, body) ==
    sess' = [sess EXCEPT ![s].pc = "done", ![s].status = status,
                         ![s].fault = fault, ![s].body = body]

\* record = db.query(Todo).filter(Todo.id == id).first() and the test of it
query_step(s) ==
    /\ sess[s].pc = "query"
    /\ LET k == Query(rows, sess[s].id)
       IN IF k = 0
          THEN Finish(s, StatusOf(NotFound), FALSE, <<>>)
          ELSE IF sess[s].op = "GET"
          THEN Finish(s, 200, FALSE, <<serialize_sqlalchemy_obj(rows[k])>>)
          ELSE sess' = [sess EXCEPT ![s].pc = IF sess[s].op = "DELETE"
                                               THEN "commit" ELSE "mutate",
                                    ![s].loaded = <<rows[k]>>,
                                    ![s].record = <<rows[k]>>]
    /\ UNCHANGED <<rows, now, last, deleted>>

\* The setattr loop and record.update_date = datetime.now(UTC)
mutate_step(s) ==
    /\ sess[s].pc = "mutate"
    /\ \E t \in ClockReads :
         LET data == model_dump(sess[s].payload, sess[s].op = "PATCH")
         IN /\ sess' = [sess EXCEPT ![s].pc = "commit",
                                    ![s].record = <<Touch(setattrs(@[1], data), t)>>]
            /\ now' = t
    /\ UNCHANGED <<rows, last, deleted>>

\* The UPDATE the flush emits: the columns the handler changed, on the row of
\* the loaded primary key as the store holds it now.
Flushed(row, loaded, record) ==
    [c \in Columns |-> IF record[c] # loaded[c] THEN record[c] ELSE row[c]]

\* db.delete(record) for a DELETE, then db.commit(); db.rollback() and the
\* internal error when it raises (a row that is gone makes the flush raise).
commit_step(s) ==
    /\ sess[s].pc = "commit"
    /\ \E fault \in BOOLEAN :
         LET k == Query(rows, sess[s].id)
             work == IF k = 0 THEN rows
                     ELSE IF sess[s].op = "DELETE" THEN Remove(rows, k)
                     ELSE [rows EXCEPT ![k] =
                             Flushed(rows[k], sess[s].loaded[1], sess[s].record[1])]
             ok == k # 0 /\ CommitOk(work, fault)
         IN /\ rows' = IF k = 0 THEN rows ELSE Written(rows, work, fault)
            /\ IF ~ok
               THEN Finish(s, StatusOf(StoreError), fault, <<>>)
               ELSE IF sess[s].op = "DELETE"
               THEN Finish(s, 200, FALSE, <<>>)
               ELSE sess' = [sess EXCEPT ![s].pc = "refresh"]
    /\ UNCHANGED <<now, last, deleted>>

\* db.refresh(record) and the serialized reply
refresh_step(s) ==
    /\ sess[s].pc = "refresh"
    /\ LET k == Query(rows, sess[s].id)
       IN IF k = 0
          THEN Finish(s, StatusOf(StoreError), FALSE, <<>>)
          ELSE Finish(s, 200, FALSE,
                      <<serialize_sqlalchemy_obj(Refreshed(rows, sess[s].id))>>)
    /\ UNCHANGED <<rows, now, last, deleted>>

NextConc ==
    \E s \in Sessions :
        \/ query_step(s)
        \/ mutate_step(s)
        \/ commit_step(s)
        \/ refresh_step(s)

\* Two concurrent requests on different ids, under every interleaving.
SpecConc == InitConc /\ [][NextConc]_vars

\* ---------------------------------------------------------------- claims

Max(a, b) == IF a > b THEN a ELSE b

\* The value of column f of record r, when the table has such a column.
Field(r, f) == IF f \in DOMAIN r THEN r[f] ELSE "<no such column>"

\* The request r is a GET, DELETE, or PUT or PATCH with a body the schema
\* accepts, on the id i.
Targets(r, i) ==
    /\ r.op \in {"GET", "PUT", "PATCH", "DELETE"}
    /\ r.id = i
    /\ r.op \in {"PUT", "PATCH"} => Validates(r.payload)

Creates(r, i) == r.op = "POST" /\ r.status = 200 /\ r.id = i

Updates(r, i) == r.op \in {"PUT", "PATCH"} /\ r.status = 200 /\ r.id = i

BodyIds(r) == { r.body[k].id : k \in 1..Len(r.body) }

OnlyTask(p) == p.task # Unset /\ \A f \in BodyKeys \ {"task"} : p[f] = Unset

\* C3 (as claimed): a PATCH whose payload supplies only task, on a stored
\* record, succeeds, sets the task, and leaves the record's due_date, id and
\* create_date as they were.
C3_PatchOnlyTask ==
    [][\A j \in 1..Len(rows) :
         (last'.op = "PATCH" /\ last'.id = rows[j].id /\ OnlyTask(last'.payload))
            => /\ last'.status = 200
               /\ Len(rows') = Len(rows)
               /\ Field(rows'[j], "task") = last'.payload.task
               /\ Field(rows'[j], "due_date") = Field(rows[j], "due_date")
               /\ rows'[j].id = rows[j].id
               /\ rows'[j].create_date = rows[j].create_date]_vars

\* C4 (as claimed): a PUT whose payload carries a task, on a stored record,
\* succeeds, sets task and due_date to the payload's, clears due_date when the
\* payload omits it, and preserves id and create_date.
C4_PutAppliesTask ==
    [][\A j \in 1..Len(rows) :
         (last'.op = "PUT" /\ last'.id = rows[j].id /\ last'.payload.task # Unset)
            => /\ last'.status = 200
               /\ Len(rows') = Len(rows)
               /\ Field(rows'[j], "task") = last'.payload.task
               /\ Field(rows'[j], "due_date") =
                     (IF last'.payload.due_date = Unset THEN None
                      ELSE last'.payload.due_date)
               /\ rows'[j].id = rows[j].id
               /\ rows'[j].create_date = rows[j].create_date]_vars

\* C5 (as claimed): every successful PUT or PATCH leaves create_date as it was
\* and makes update_date strictly greater than it was before the update.
C5_StrictlyLater ==
    [][\A j \in 1..Len(rows), k \in 1..Len(rows') :
         (rows[j].id = rows'[k].id /\ Updates(last', rows[j].id))
            => /\ rows'[k].create_date = rows[j].create_date
               /\ rows'[k].update_date > rows[j].update_date]_vars

\* C5 (amended): across every step, a record that stays in the table keeps its
\* create_date and its update_date does not decrease; a successful PUT or PATCH
\* sets update_date to the clock value it read, which is greater than or equal
\* to the update_date before it, and answers with the unchanged create_date.
C5_NeverEarlier ==
    [][\A j \in 1..Len(rows), k \in 1..Len(rows') :
         rows[j].id = rows'[k].id
            => /\ rows'[k].create_date = rows[j].create_date
               /\ rows'[k].update_date >= rows[j].update_date
               /\ Updates(last', rows[j].id)
                     => /\ rows'[k].update_date = now'
                        /\ last'.body[1].create_date = rows[j].create_date
                        /\ last'.body[1].update_date >= rows[j].update_date]_vars

\* A successful PATCH of a record at a clock value after the one of its
\* creation.
C5_Witness ==
    /\ last.op = "PATCH"
    /\ last.status = 200
    /\ last.body[1].update_date > last.body[1].create_date

\* C6: with N rows in the table and a limit L, the list operation for page p
\* answers the rows at positions (p-1)*L+1 .. p*L of the table that exist:
\* min(L, N) rows on page 1, the N - (ceil(N/L)-1)*L remaining rows on page
\* ceil(N/L), never more than L, and no record on two pages.
C6_Paging ==
    (last.op = "LIST" /\ last.status = 200) =>
        LET p == last.page
            l == last.limit
            n == Len(rows)
            got == Len(last.body)
            pages == (n + l - 1) \div l
        IN /\ l \in 1..LimitCap /\ p >= 1
           /\ got = Max(0, Min(l, n - (p - 1) * l))
           /\ \A k \in 1..got : last.body[k] = rows[(p - 1) * l + k]
           /\ got <= l
           /\ p = 1 => got = Min(l, n)
           /\ (n > 0 /\ p = pages) => got = n - (pages - 1) * l
           /\ \A q \in 1..(MaxPage + 1) :
                 q # p => \A k \in 1..Len(Page(rows, Offset(q, l), l)) :
                             Page(rows, Offset(q, l), l)[k].id \notin BodyIds(last)

\* The last page of a table, holding fewer rows than the limit.
C6_Witness ==
    /\ last.op = "LIST"
    /\ last.status = 200
    /\ last.page >= 2
    /\ Len(last.body) >= 1
    /\ Len(last.body) < last.limit

\* C7 (as claimed): a create request whose payload omits task answers 422 and
\* leaves the table as it was.
C7_NoTaskRejected ==
    [][(last'.op = "POST" /\ last'.payload.task = Unset)
          => (last'.status = 422 /\ rows' = rows)]_vars

\* C8 (as claimed): a create request whose payload carries a task succeeds and
\* answers a record with the input's task and due_date (absent when omitted),
\* an id no other live record holds and both timestamps; the record is the one
\* a GET of that id then finds.
C8_CreateEchoesTask ==
    (last.op = "POST" /\ last.payload.task # Unset) =>
        /\ last.status = 200
        /\ Len(last.body) = 1
        /\ Field(last.body[1], "task") = last.payload.task
        /\ Field(last.body[1], "due_date") =
              (IF last.payload.due_date = Unset THEN None ELSE last.payload.due_date)
        /\ Cardinality({ k \in 1..Len(rows) : rows[k].id = last.id }) = 1
        /\ rows[Query(rows, last.id)] = last.body[1]

\* C9: when the commit of a create, PUT, PATCH or DELETE raises, the request
\* answers 500 and the table is what it was before the request: no row added,
\* none removed, no column of any row changed; and no request that answers 500
\* changes the table.
C9_FailedWriteRolledBack ==
    [][/\ last'.fault => (last'.status = 500 /\ rows' = rows)
       /\ last'.status = 500 => (last'.fault /\ rows' = rows)]_vars

\* A PUT whose commit raised, answered 500, with the targeted record stored.
C9_Witness ==
    /\ last.op = "PUT"
    /\ last.fault
    /\ last.status = 500
    /\ last.id \in LiveIds(rows)

\* What the request of session s comes to when it is served alone on the table
\* it arrived at, with the clock value and the store fault it met: whether its
\* commit succeeds, its status, and the row its id then has (<<>> when none).
AloneRow(s) ==
    LET k == Query(sess[s].start, sess[s].id)
    IN IF k = 0 THEN <<>> ELSE <<sess[s].start[k]>>

AloneCommits(s) ==
    LET k == Query(sess[s].start, sess[s].id)
    IN /\ k # 0
       /\ sess[s].op # "GET"
       /\ CommitOk(IF sess[s].op = "DELETE" THEN Remove(sess[s].start, k)
                   ELSE [sess[s].start EXCEPT ![k] = sess[s].record[1]],
                   sess[s].fault)

AloneStatus(s) ==
    IF AloneRow(s) = <<>> THEN 404
    ELSE IF sess[s].op = "GET" \/ AloneCommits(s) THEN 200 ELSE 500

AloneFinal(s) ==
    IF ~AloneCommits(s) THEN AloneRow(s)
    ELSE IF sess[s].op = "DELETE" THEN <<>> ELSE sess[s].record

FinalRow(s) ==
    LET k == Query(rows, sess[s].id)
    IN IF k = 0 THEN <<>> ELSE <<rows[k]>>

\* C10 (as claimed): when two concurrent requests on different ids have both
\* ended, under every interleaving of their steps, each has the status it has
\* when served alone, and the record of its id is stored as it is when the
\* request is served alone.
C10_NoInterference ==
    (\A s \in Sessions : sess[s].pc = "done") =>
        \A s \in Sessions :
            /\ sess[s].status = AloneStatus(s)
            /\ FinalRow(s) = AloneFinal(s)

====
